---- MODULE Spec2Model ----
(***************************************************************************)
(* A model of stocklook/crypto/gdax/order_mm.py: the GdaxMMOrder class.    *)
(*                                                                         *)
(* Units.  Money is counted in mills (1/1000 of a dollar), so that a price *)
(* with more than two decimals can be told from its rounding to cents:     *)
(* round(x, 2) is Round2, the nearest multiple of 10 mills, ties to the    *)
(* even cent.  Sizes are counted in tenths of a unit.  Percentages         *)
(* (stop_pct) are whole percents.                                          *)
(***************************************************************************)
EXTENDS Integers, Sequences, FiniteSets, TLC

\* The GdaxMMOrder objects that can be built, by identity.
Orders == {"o1", "o2", "o3"}

\* Python's None, where the other values are objects or names.
None == "None"

\* A number that may be None: <<>> is None, <<x>> is the number x.
NoNum == <<>>

Num(x) == <<x>>

Val(opt) == opt[1]

Sides == {"buy", "sell"}

VARIABLES
    side,           \* GdaxOrder.side of each order that was built
    price,          \* GdaxOrder.price of each order, in mills
    size,           \* GdaxOrder.size of each order, in tenths
    _op_order,      \* GdaxMMOrder._op_order: an order or None
    _locked,        \* GdaxMMOrder._locked
    _unlock_method, \* GdaxMMOrder._unlock_method: None or "callable"
    _cycle_number,  \* GdaxMMOrder._cycle_number
    market_maker,   \* the GdaxMarketMaker settings the order reads (self.m)
    frame,          \* the running get_price_adjusted_to_profit_target call
    args,           \* the last call made: its name, receiver and arguments
    ret             \* what the last finished call did: its name, receiver,
                    \* exception raised (or None) and value returned

vars == <<side, price, size, _op_order, _locked, _unlock_method,
          _cycle_number, market_maker, frame, args, ret>>

\* The orders that were built.
Arena == DOMAIN side

order_vars == <<side, price, size, _op_order, _locked, _unlock_method,
                _cycle_number, market_maker>>

----------------------------------------------------------------------------
\* Bounds of the model.

\* register_order_cycle is called at most this often, all orders together.
MaxCycle == 2

\* Depth at which the interpreter gives up on a recursion (RecursionError).
RecursionLimit == 4

\* Iterations after which a loop that has not ended is given up as never
\* ending.
MaxIter == 12

\* Longest other_prices list a pricing call is given.
MaxOthers == 2

----------------------------------------------------------------------------
\* Arithmetic helpers.

\* n/d rounded to the nearest integer, ties to even: Python 3's round().
RECURSIVE SumOver(_, _)
SumOver(f, S) ==
    IF S = {} THEN 0
    ELSE LET x == CHOOSE y \in S : TRUE IN f[x] + SumOver(f, S \ {x})

RoundHalfEven(n, d) ==
    LET q == n \div d
        r == n % d
    IN  IF 2 * r < d THEN q
        ELSE IF 2 * r > d THEN q + 1
        ELSE IF q % 2 = 0 THEN q ELSE q + 1

\* round(x, 2) of an amount in mills.
Round2(x) == 10 * RoundHalfEven(x, 10)

\* What a call leaves behind for its caller.
Returned(op, self, value) ==
    [op |-> op, self |-> self, raised |-> None, value |-> value]

Raised(op, self, exc) ==
    [op |-> op, self |-> self, raised |-> exc, value |-> NoNum]

NoCall == [op |-> None, self |-> None, raised |-> None, value |-> NoNum]

NoArgs == [op |-> None]

Idle == [pc |-> "idle"]

----------------------------------------------------------------------------
\* Read-only properties.

\* GdaxMMOrder.op_order
op_order(self) == _op_order[self]

\* GdaxMMOrder.cycle_number
cycle_number(self) == _cycle_number[self]

\* GdaxMMOrder.stop_amount, in hundredths of a mill (op_price - op_price *
\* stop_pct with stop_pct a whole percent), or None.  A stop_pct of 0 is
\* Python's falsy "not stop_pct".
stop_amount(self) ==
    LET stop_pct == market_maker.stop_pct
    IN  IF stop_pct = 0 THEN NoNum
        ELSE IF op_order(self) = None THEN NoNum
        ELSE IF side[self] = "buy" THEN NoNum
        ELSE LET op_price == price[op_order(self)]
             IN  Num(op_price * 100 - op_price * stop_pct)

\* GdaxMMOrder.locked: the getter returns self.locked, which is the getter
\* again; the recursion ends only when the interpreter's limit is hit.
RECURSIVE locked_getter(_, _)
locked_getter(self, depth) ==
    IF depth >= RecursionLimit THEN Raised("locked", self, "RecursionError")
    ELSE locked_getter(self, depth + 1)

locked(self) == locked_getter(self, 1)

\* GdaxMMOrder.get_pnl(price): mills, rounded to cents, or None.
get_pnl(self, p) ==
    LET op == _op_order[self]
    IN  IF op # None
        THEN LET buy_spend  == IF side[self] = "buy" THEN size[self] * p
                               ELSE size[op] * price[op]
                 sell_spend == IF side[self] = "buy" THEN size[op] * price[op]
                               ELSE size[self] * p
             IN  Num(10 * RoundHalfEven(sell_spend - buy_spend, 100))
        ELSE NoNum

\* GdaxMMOrder.get_price_target_via_op(min_diff)
get_price_target_via_op(self, min_diff) ==
    IF op_order(self) # None THEN price[op_order(self)] + min_diff
    ELSE price[self]

----------------------------------------------------------------------------
\* Lifecycle operations.  Every call runs to completion before the next one
\* starts (frame = Idle): the class is single-threaded.

\* lock() without the check of line 130: a locked order is locked again and
\* its unlock method replaced.
lock_reentrant(self, unlock_method) ==
    /\ frame = Idle
    /\ _locked' = [_locked EXCEPT ![self] = TRUE]
    /\ _unlock_method' = [_unlock_method EXCEPT ![self] = unlock_method]
    /\ ret' = Returned("lock", self, NoNum)
    /\ args' = [op |-> "lock", self |-> self, unlock_method |-> unlock_method]
    /\ UNCHANGED <<side, price, size, _op_order, _cycle_number, market_maker, frame>>

\* GdaxMMOrder.lock(unlock_method)
lock(self, unlock_method) ==
    /\ frame = Idle
    /\ IF _locked[self]
       THEN /\ ret' = Raised("lock", self, "OrderLockError")
            /\ UNCHANGED <<_locked, _unlock_method>>
       ELSE /\ _locked' = [_locked EXCEPT ![self] = TRUE]
            /\ _unlock_method' = [_unlock_method EXCEPT ![self] = unlock_method]
            /\ ret' = Returned("lock", self, NoNum)
    /\ args' = [op |-> "lock", self |-> self, unlock_method |-> unlock_method]
    /\ UNCHANGED <<side, price, size, _op_order, _cycle_number, market_maker, frame>>

\* unlock() with the failure swallowed: the flag is cleared whatever the
\* unlock method says.
unlock_always(self, verdict) ==
    /\ frame = Idle
    /\ _locked' = [_locked EXCEPT ![self] = FALSE]
    /\ ret' = IF _unlock_method[self] # None /\ verdict # "true"
              THEN Raised("unlock", self, "OrderLockError")
              ELSE Returned("unlock", self, NoNum)
    /\ args' = [op |-> "unlock", self |-> self, verdict |-> verdict]
    /\ UNCHANGED <<side, price, size, _op_order, _unlock_method, _cycle_number,
                   market_maker, frame>>

\* GdaxMMOrder.unlock(); verdict is what the stored unlock method does when
\* it is applied to the order: returns true, returns false, or raises an
\* Exception.
unlock(self, verdict) ==
    /\ frame = Idle
    /\ IF _unlock_method[self] # None /\ verdict # "true"
       THEN /\ ret' = Raised("unlock", self, "OrderLockError")
            /\ UNCHANGED _locked
       ELSE /\ _locked' = [_locked EXCEPT ![self] = FALSE]
            /\ ret' = Returned("unlock", self, NoNum)
    /\ args' = [op |-> "unlock", self |-> self, verdict |-> verdict]
    /\ UNCHANGED <<side, price, size, _op_order, _unlock_method, _cycle_number,
                   market_maker, frame>>

\* Reading GdaxMMOrder.locked
read_locked(self) ==
    /\ frame = Idle
    /\ ret' = locked(self)
    /\ args' = [op |-> "locked", self |-> self]
    /\ UNCHANGED <<order_vars, frame>>

\* register_op_order() taking every order with a pairing as the new pairing's
\* source, whatever its side.
register_op_order_any_side(self, order) ==
    /\ frame = Idle
    /\ IF _op_order[order] # None
       THEN /\ _op_order' = [_op_order EXCEPT ![self] = _op_order[order]]
            /\ ret' = Returned("register_op_order", self, NoNum)
       ELSE IF side[order] # side[self]
       THEN /\ _op_order' = [_op_order EXCEPT ![self] = order]
            /\ ret' = Returned("register_op_order", self, NoNum)
       ELSE /\ ret' = Raised("register_op_order", self, "AttributeError")
            /\ UNCHANGED _op_order
    /\ args' = [op |-> "register_op_order", self |-> self, order |-> order]
    /\ UNCHANGED <<side, price, size, _locked, _unlock_method, _cycle_number,
                   market_maker, frame>>

\* GdaxMMOrder.register_op_order(order)
register_op_order(self, order) ==
    /\ frame = Idle
    /\ LET o_side == side[order]
           my_side == side[self]
           o_op_order == _op_order[order]
       IN  IF o_side = my_side /\ o_op_order # None
           THEN /\ _op_order' = [_op_order EXCEPT ![self] = o_op_order]
                /\ ret' = Returned("register_op_order", self, NoNum)
           ELSE IF o_side # my_side
           THEN /\ _op_order' = [_op_order EXCEPT ![self] = order]
                /\ ret' = Returned("register_op_order", self, NoNum)
           ELSE /\ ret' = Raised("register_op_order", self, "AttributeError")
                /\ UNCHANGED _op_order
    /\ args' = [op |-> "register_op_order", self |-> self, order |-> order]
    /\ UNCHANGED <<side, price, size, _locked, _unlock_method, _cycle_number,
                   market_maker, frame>>

\* register_order_cycle() with "=" for "+=".
register_order_cycle_assign(self) ==
    /\ frame = Idle
    /\ SumOver(_cycle_number, Arena) < MaxCycle
    /\ _cycle_number' = [_cycle_number EXCEPT ![self] = 1]
    /\ ret' = Returned("register_order_cycle", self, NoNum)
    /\ args' = [op |-> "register_order_cycle", self |-> self]
    /\ UNCHANGED <<side, price, size, _op_order, _locked, _unlock_method,
                   market_maker, frame>>

\* GdaxMMOrder.register_order_cycle()
register_order_cycle(self) ==
    /\ frame = Idle
    /\ SumOver(_cycle_number, Arena) < MaxCycle
    /\ _cycle_number' = [_cycle_number EXCEPT ![self] = @ + 1]
    /\ ret' = Returned("register_order_cycle", self, NoNum)
    /\ args' = [op |-> "register_order_cycle", self |-> self]
    /\ UNCHANGED <<side, price, size, _op_order, _locked, _unlock_method,
                   market_maker, frame>>

\* A call of GdaxMMOrder.get_pnl(price)
call_get_pnl(self, p) ==
    /\ frame = Idle
    /\ ret' = Returned("get_pnl", self,
                       get_pnl(self, IF p = NoNum THEN price[self] ELSE Val(p)))
    /\ args' = [op |-> "get_pnl", self |-> self, p |-> p]
    /\ UNCHANGED <<order_vars, frame>>

\* Reading GdaxMMOrder.stop_amount
read_stop_amount(self) ==
    /\ frame = Idle
    /\ ret' = Returned("stop_amount", self, stop_amount(self))
    /\ args' = [op |-> "stop_amount", self |-> self]
    /\ UNCHANGED <<order_vars, frame>>

----------------------------------------------------------------------------
\* Pricing methods.  They assign no field of the order; get_price_incremented
\* changes the other_prices list it is handed.

\* Defaults of the keyword parameters.
DefaultStep == 30

DefaultMinProfit == 10

\* factor=0.8, in tenths.
DefaultFactor == 8

\* for _ in range(5)
ProbeCount == 5

\* depth_check >= 30
DepthWall == 30

\* list.remove(x): drops the first element equal to x; ValueError is caught
\* by the caller, so a list without x stays as it is.
remove(list, x) ==
    LET at == {i \in DOMAIN list : list[i] = x}
    IN  IF at = {} THEN list
        ELSE LET k == CHOOSE i \in at : \A j \in at : i <= j
             IN  SubSeq(list, 1, k - 1) \o SubSeq(list, k + 1, Len(list))

\* The probing loop of get_amount_above_spread: depths[i] is the depth the
\* snapshot reports at the i-th level probed, delta the signed spread_bit.
RECURSIVE probe(_, _, _, _)
probe(level, delta, depths, i) ==
    IF i > ProbeCount THEN level
    ELSE IF depths[i] >= DepthWall \/ depths[i] = 0 THEN level
    ELSE probe(level + delta, delta, depths, i + 1)

\* GdaxMMOrder.get_amount_above_spread(spread) on the book snapshot snap:
\* snap.bid is snap.bids[0][0], snap.ask is snap.asks[0][0].  The spreads
\* of the model are multiples of 3 mills, so spread / 3 is exact.
get_amount_above_spread(self, spread, snap) ==
    LET sp == IF spread = NoNum THEN market_maker.max_spread ELSE Val(spread)
        spread_bit == sp \div 3
    IN  IF side[self] = "sell"
        THEN LET max_price == probe(snap.bid + sp, spread_bit, snap.depths, 1)
             IN  Round2(price[self] - max_price)
        ELSE LET min_price == probe(snap.ask - sp, 0 - spread_bit, snap.depths, 1)
             IN  Round2(price[self] - min_price)

\* GdaxMMOrder.get_price_adjusted_to_spread(spread, aggressive, amount_above,
\* factor, min_profit); factor is in tenths.  "not x" holds of None and of 0.
get_price_adjusted_to_spread(self, spread, aggressive, amount_above, factor, min_profit, snap) ==
    LET falsy(x) == x = NoNum \/ x = Num(0)
        sp == IF ~falsy(spread) THEN spread
              ELSE IF aggressive THEN Num(market_maker.min_spread)
              ELSE Num(market_maker.max_spread)
        above == IF falsy(amount_above)
                 THEN get_amount_above_spread(self, sp, snap)
                 ELSE Val(amount_above)
        p == IF above # 0
             THEN 10 * RoundHalfEven(10 * price[self] - above * factor, 100)
             ELSE Round2(price[self])
    IN  IF op_order(self) # None /\ min_profit # NoNum
        THEN LET min_price == price[op_order(self)] + Val(min_profit)
             IN  IF p < min_price THEN min_price ELSE p
        ELSE p

\* The while loop of get_price_incremented, entered with check_p not empty:
\* the converged price, or None when the loop does not end.
RECURSIVE converge(_, _, _, _, _)
converge(p, other_prices, increment, step, fuel) ==
    IF fuel = 0 THEN NoNum
    ELSE LET p1 == Round2(IF increment THEN p + step ELSE p - step)
             max_p == p1 + step
             min_p == p1 - step
             check_p == {i \in DOMAIN other_prices :
                           other_prices[i] >= min_p /\ other_prices[i] <= max_p}
         IN  IF check_p # {}
             THEN converge(p1, other_prices, increment, step, fuel - 1)
             ELSE Num(p1)

\* The sign of the error of the float sum x + y: 1 when the sum of the
\* doubles nearest to x and y is above the double nearest to the decimal
\* x + y, -1 when it is below, 0 when it is that double.  IEEE-754 doubles,
\* for the sums of an order price and a min_profit that the model makes;
\* 1.12 + 0.01 is 1.1300000000000001 and 1.12 + 0.05 is 1.1700000000000002.
float_excess(x, y) ==
    IF <<x, y>> \in {<<1120, 10>>, <<1120, 50>>} THEN 1 ELSE 0

\* GdaxMMOrder.get_price_incremented(p, other_prices, cap_out, increment,
\* step, min_profit, _force), as the depth-th nested call.  The price p is
\* the double at p mills when excess is 0, and a double next above or below
\* it when excess is 1 or -1: such a p is equal to no price of other_prices
\* (whose prices, like the results of round(x, 2), are the doubles nearest
\* to their decimals), and it breaks the ties of the comparisons with it.
\* The sums p + step and p - step are taken as exact.
\* The result holds the exception raised (or None; "NoReturn" when the loop
\* does not end), the price returned, the list other_prices as the call
\* leaves it, and the number of nested calls made.
RECURSIVE get_price_incremented_at(_, _, _, _, _, _, _, _, _, _)
get_price_incremented_at(self, p, other_prices, cap_out, increment, step, min_profit, _force, depth, excess) ==
    LET others == IF excess = 0 THEN remove(other_prices, p) ELSE other_prices
        max_p == p + step
        min_p == p - step
        check_p == {i \in DOMAIN others :
                      /\ others[i] > min_p \/ (others[i] = min_p /\ excess < 0)
                      /\ others[i] < max_p \/ (others[i] = max_p /\ excess > 0)}
        done == IF check_p # {}
                THEN converge(Round2(p), others, increment, step, MaxIter)
                ELSE Num(Round2(p))
        nested(p_, increment_, excess_) ==
            get_price_incremented_at(self, p_, others, cap_out, increment_, step,
                                     Num(DefaultMinProfit), TRUE, depth + 1, excess_)
        fail(exc) == [raised |-> exc, value |-> NoNum,
                      other_prices |-> others, depth |-> depth]
    IN  IF depth >= RecursionLimit THEN fail("RecursionError")
        ELSE IF done = NoNum THEN fail("NoReturn")
        ELSE LET q == Val(done)
             IN  IF cap_out # NoNum /\ ~_force /\ ~increment /\ q < Val(cap_out)
                 THEN nested(q, TRUE, 0)
                 ELSE IF cap_out # NoNum /\ ~_force /\ increment /\ q > Val(cap_out)
                 THEN nested(q, FALSE, 0)
                 ELSE IF side[self] = "sell" /\ min_profit # NoNum
                 THEN LET p2 == get_price_target_via_op(self, Val(min_profit))
                          p2_excess == IF op_order(self) # None
                                       THEN float_excess(price[op_order(self)],
                                                         Val(min_profit))
                                       ELSE 0
                      IN  IF stop_amount(self) = NoNum THEN fail("TypeError")
                          ELSE IF /\ 100 * q > Val(stop_amount(self))
                                  /\ p2 > q \/ (p2 = q /\ p2_excess > 0)
                          THEN nested(p2, TRUE, p2_excess)
                          ELSE [raised |-> None, value |-> Num(q),
                                other_prices |-> others, depth |-> depth]
                 ELSE [raised |-> None, value |-> Num(q),
                       other_prices |-> others, depth |-> depth]

\* A call whose p is the double nearest to its decimal.
get_price_incremented(self, p, other_prices, cap_out, increment, step, min_profit, _force) ==
    get_price_incremented_at(self, p, other_prices, cap_out, increment, step,
                             min_profit, _force, 0, 0)

Max(S) == CHOOSE x \in S : \A y \in S : y <= x

Min(S) == CHOOSE x \in S : \A y \in S : x <= y

Range(list) == {list[i] : i \in DOMAIN list}

\* The direction get_price_adjusted_to_other_prices hands to adj_price:
\* TRUE to increment, FALSE to decrement.
adj_direction(self, my_min, other_prices, aggressive, step) ==
    LET min_price == Min(Range(other_prices))
        max_price == Max(Range(other_prices))
        max_and_step == max_price + step
        min_and_step == min_price - step
    IN  IF side[self] = "buy"
        THEN IF aggressive
             THEN IF my_min >= max_and_step THEN TRUE ELSE FALSE
             ELSE FALSE
        ELSE IF aggressive
             THEN IF my_min >= min_and_step THEN FALSE ELSE TRUE
             ELSE TRUE

\* GdaxMMOrder.get_price_adjusted_to_other_prices(other_prices, aggressive,
\* step, min_profit).  other_prices is <<list>>, or <<>> for None: the market
\* maker's own list of the order's side is used then.  The result holds, next
\* to the outcome of get_price_incremented, the baseline my_min, the cap and
\* the direction.
get_price_adjusted_to_other_prices(self, other_prices, aggressive, step, min_profit, snap) ==
    LET others == IF other_prices # NoNum THEN Val(other_prices)
                  ELSE IF side[self] = "buy" THEN market_maker.buy_orders
                  ELSE market_maker.sell_orders
        my_min == get_price_adjusted_to_spread(self, NoNum, aggressive, NoNum,
                                               DefaultFactor, min_profit, snap)
        f == Len(others)
        cap_out == IF side[self] = "sell" THEN my_min + step * f
                   ELSE my_min - step * f
    IN  IF others = <<>>
        THEN [raised |-> None, value |-> Num(my_min), other_prices |-> others,
              depth |-> 0, my_min |-> my_min, cap_out |-> NoNum, increment |-> None]
        ELSE LET increment == adj_direction(self, my_min, others, aggressive, step)
                 r == get_price_incremented(self, my_min, others, Num(cap_out),
                                            increment, step, Num(DefaultMinProfit), FALSE)
             IN  [raised |-> r.raised, value |-> r.value,
                  other_prices |-> r.other_prices, depth |-> r.depth,
                  my_min |-> my_min, cap_out |-> Num(cap_out),
                  increment |-> IF increment THEN "increment" ELSE "decrement"]

\* A finished pricing call: its outcome r, with the call's name and receiver.
Priced(op, self, r) == [op |-> op, self |-> self] @@ r

\* A call of get_price_incremented
call_get_price_incremented(self, p, other_prices, cap_out, increment, step, min_profit, _force) ==
    /\ frame = Idle
    /\ args' = [op |-> "get_price_incremented", self |-> self,
                p |-> p, other_prices |-> other_prices, cap_out |-> cap_out,
                increment |-> increment, step |-> step,
                min_profit |-> min_profit, _force |-> _force]
    /\ ret' = Priced("get_price_incremented", self,
                     get_price_incremented(self, p, other_prices, cap_out,
                                           increment, step, min_profit, _force))
    /\ UNCHANGED <<order_vars, frame>>

\* A call of get_price_adjusted_to_spread with the default factor
call_get_price_adjusted_to_spread(self, spread, aggressive, amount_above, min_profit, snap) ==
    /\ frame = Idle
    /\ args' = [op |-> "get_price_adjusted_to_spread", self |-> self,
                spread |-> spread, aggressive |-> aggressive,
                amount_above |-> amount_above, min_profit |-> min_profit,
                snap |-> snap]
    /\ ret' = Returned("get_price_adjusted_to_spread", self,
                       Num(get_price_adjusted_to_spread(self, spread, aggressive,
                               amount_above, DefaultFactor, min_profit, snap)))
    /\ UNCHANGED <<order_vars, frame>>

\* A call of get_price_adjusted_to_other_prices
call_get_price_adjusted_to_other_prices(self, other_prices, aggressive, step, min_profit, snap) ==
    /\ frame = Idle
    /\ args' = [op |-> "get_price_adjusted_to_other_prices", self |-> self,
                other_prices |-> other_prices, aggressive |-> aggressive,
                step |-> step, min_profit |-> min_profit, snap |-> snap]
    /\ ret' = Priced("get_price_adjusted_to_other_prices", self,
                     get_price_adjusted_to_other_prices(self, other_prices,
                         aggressive, step, min_profit, snap))
    /\ UNCHANGED <<order_vars, frame>>

\* GdaxMMOrder.get_price_adjusted_to_profit_target(min_profit), statement by
\* statement.  Entry: price = self.price, pnl = self.get_pnl(price), and the
\* return of self.price when there is no pnl.
profit_target_enter(self, min_profit) ==
    /\ frame = Idle
    /\ args' = [op |-> "get_price_adjusted_to_profit_target", self |-> self,
                min_profit |-> min_profit]
    /\ LET pnl == get_pnl(self, price[self])
       IN  IF pnl = NoNum
           THEN /\ ret' = Returned("get_price_adjusted_to_profit_target", self,
                                   Num(price[self]))
                /\ UNCHANGED frame
           ELSE /\ frame' = [pc |-> "while", self |-> self, price |-> price[self],
                             pnl |-> Val(pnl), min_profit |-> min_profit]
                /\ ret' = NoCall
    /\ UNCHANGED order_vars

\* One pass of "while pnl < min_profit: price += 0.01".
profit_target_loop ==
    /\ frame # Idle
    /\ frame.pc = "while"
    /\ frame.pnl < frame.min_profit
    /\ frame.price < price[frame.self] + 10 * MaxIter
    /\ frame' = [frame EXCEPT !.price = @ + 10]
    /\ UNCHANGED <<order_vars, args, ret>>

\* The loop's exit and "return price".
profit_target_return ==
    /\ frame # Idle
    /\ frame.pc = "while"
    /\ ~(frame.pnl < frame.min_profit)
    /\ ret' = Returned("get_price_adjusted_to_profit_target", frame.self,
                       Num(frame.price))
    /\ frame' = Idle
    /\ UNCHANGED <<order_vars, args>>

----------------------------------------------------------------------------
\* The state after construction: every order of the arena A was built without
\* op_order, unlocked, in cycle 0.

\* Prices the orders are built with.
BasePrice == [o \in Orders |-> IF o = "o1" THEN 1000 ELSE IF o = "o2" THEN 1030 ELSE 1010]

Built(A) ==
    /\ side \in [A -> Sides]
    /\ price = [o \in A |-> BasePrice[o]]
    /\ size = [o \in A |-> 10]
    /\ _op_order = [o \in A |-> None]
    /\ _locked = [o \in A |-> FALSE]
    /\ _unlock_method = [o \in A |-> None]
    /\ _cycle_number = [o \in A |-> 0]
    /\ market_maker = [stop_pct |-> 5, min_spread |-> 30, max_spread |-> 60,
                       buy_orders |-> <<1000, 990>>, sell_orders |-> <<1030>>]
    /\ frame = Idle
    /\ args = NoArgs
    /\ ret = NoCall

\* A book snapshot: best bid, best ask, and the depths the probes meet.
Snapshot(depths) == [bid |-> 990, ask |-> 1020, depths |-> depths]

\* Two orders and every operation on them.
Init == Built({"o1", "o2"})

Next ==
    \/ \E self \in Arena :
          \/ \E m \in {None, "callable"} : lock(self, m)
          \/ \E verdict \in {"true", "false", "raises"} : unlock(self, verdict)
          \/ read_locked(self)
          \/ \E order \in Arena : register_op_order(self, order)
          \/ register_order_cycle(self)
          \/ \E p \in {NoNum, Num(1040)} : call_get_pnl(self, p)
          \/ read_stop_amount(self)
          \/ \E increment \in BOOLEAN :
                call_get_price_incremented(self, price[self], <<1000, 1030>>,
                    Num(1010), increment, DefaultStep, Num(DefaultMinProfit), FALSE)
          \/ call_get_price_adjusted_to_spread(self, NoNum, TRUE, NoNum,
                 Num(DefaultMinProfit), Snapshot(<<10, 40, 0, 0, 0>>))
          \/ \E aggressive \in BOOLEAN :
                call_get_price_adjusted_to_other_prices(self, NoNum, aggressive,
                    DefaultStep, Num(DefaultMinProfit), Snapshot(<<10, 40, 0, 0, 0>>))
          \/ \E min_profit \in {10, 50} : profit_target_enter(self, min_profit)
    \/ profit_target_loop
    \/ profit_target_return

Spec == Init /\ [][Next]_vars

\* Three orders and the pairing operations among them.
InitPair == Built(Orders)

NextPair ==
    \E self \in Arena :
        \/ \E order \in Arena : register_op_order(self, order)
        \/ \E p \in {NoNum, Num(1040)} : call_get_pnl(self, p)
        \/ read_stop_amount(self)

SpecPair == InitPair /\ [][NextPair]_vars

----------------------------------------------------------------------------
\* One pricing call on a buy order o1 and a sell order o2, paired with each
\* other or not, with its arguments drawn from the sets below.

StartPrices == {990, 1000, 1004, 1010}

OtherPrices == {990, 1000, 1010, 1020}

Lists(S) == UNION {[1..n -> S] : n \in 0..MaxOthers}

Caps == {NoNum, Num(990), Num(1010)}

Steps == {10, 30}

MinProfits == {NoNum, Num(0), Num(10), Num(50)}

Snapshots ==
    {Snapshot(d) : d \in {<<0, 0, 0, 0, 0>>, <<10, 40, 0, 0, 0>>, <<10, 10, 10, 10, 10>>}}

PricingCalls ==
    [op : {"get_price_incremented"}, self : {"o1", "o2"}, p : StartPrices,
     other_prices : Lists(OtherPrices), cap_out : Caps, increment : BOOLEAN,
     step : Steps, min_profit : MinProfits, _force : BOOLEAN]
    \cup
    [op : {"get_price_adjusted_to_spread"}, self : {"o1", "o2"},
     spread : {NoNum, Num(60)}, aggressive : BOOLEAN,
     amount_above : {NoNum, Num(20)}, min_profit : MinProfits,
     snap : Snapshots]
    \cup
    [op : {"get_price_adjusted_to_other_prices"}, self : {"o1", "o2"},
     other_prices : {NoNum} \cup {Num(l) : l \in Lists(OtherPrices)},
     aggressive : BOOLEAN, step : Steps, min_profit : MinProfits,
     snap : Snapshots]
    \cup
    [op : {"get_price_adjusted_to_profit_target"}, self : {"o1", "o2"},
     min_profit : {10, 50}]
    \cup
    [op : {"get_pnl"}, self : {"o1", "o2"}, p : {NoNum, Num(1040), Num(1004)}]
    \cup
    [op : {"stop_amount"}, self : {"o1", "o2"}]

InitPrice ==
    /\ side = [o \in {"o1", "o2"} |-> IF o = "o1" THEN "buy" ELSE "sell"]
    /\ price = [o \in {"o1", "o2"} |-> BasePrice[o]]
    /\ size = [o \in {"o1", "o2"} |-> 10]
    /\ \E paired \in BOOLEAN, stop_pct \in {0, 5} :
          /\ paired \/ stop_pct # 0
          /\ _op_order = IF paired THEN [o \in {"o1", "o2"} |-> IF o = "o1" THEN "o2" ELSE "o1"]
                         ELSE [o \in {"o1", "o2"} |-> None]
          /\ market_maker = [stop_pct |-> stop_pct, min_spread |-> 30,
                             max_spread |-> 60, buy_orders |-> <<1000, 990>>,
                             sell_orders |-> <<1030>>]
    /\ _locked = [o \in {"o1", "o2"} |-> FALSE]
    /\ _unlock_method = [o \in {"o1", "o2"} |-> None]
    /\ _cycle_number = [o \in {"o1", "o2"} |-> 0]
    /\ frame = Idle
    /\ args \in PricingCalls
    /\ ret = NoCall

\* The call drawn by InitPrice is made, once.
Pending(op) == ret = NoCall /\ frame = Idle /\ args.op = op

NextPrice ==
    \/ /\ Pending("get_price_incremented")
       /\ call_get_price_incremented(args.self, args.p, args.other_prices,
              args.cap_out, args.increment, args.step, args.min_profit, args._force)
    \/ /\ Pending("get_price_adjusted_to_spread")
       /\ call_get_price_adjusted_to_spread(args.self, args.spread, args.aggressive,
              args.amount_above, args.min_profit, args.snap)
    \/ /\ Pending("get_price_adjusted_to_other_prices")
       /\ call_get_price_adjusted_to_other_prices(args.self, args.other_prices,
              args.aggressive, args.step, args.min_profit, args.snap)
    \/ /\ Pending("get_price_adjusted_to_profit_target")
       /\ profit_target_enter(args.self, args.min_profit)
    \/ profit_target_loop
    \/ profit_target_return
    \/ /\ Pending("get_pnl")
       /\ call_get_pnl(args.self, args.p)
    \/ /\ Pending("stop_amount")
       /\ read_stop_amount(args.self)

SpecPrice == InitPrice /\ [][NextPrice]_vars

----------------------------------------------------------------------------
\* One get_price_incremented call on a buy order o1 and a sell order o2 that
\* are paired with each other, with stop_pct configured and every price in
\* whole cents.

\* Prices the buy order is built with.
BuyPrices == {1000, 1120}

CentStarts == {1000, 1080, 1130}

CentOthers == {1010, 1130, 1140, 1160}

CentCaps == {NoNum, Num(1010), Num(1130)}

IncrementCalls ==
    [op : {"get_price_incremented"}, self : {"o1", "o2"}, p : CentStarts,
     other_prices : Lists(CentOthers), cap_out : CentCaps, increment : BOOLEAN,
     step : Steps, min_profit : MinProfits, _force : BOOLEAN]

InitIncrement ==
    /\ side = [o \in {"o1", "o2"} |-> IF o = "o1" THEN "buy" ELSE "sell"]
    /\ \E buy_price \in BuyPrices :
          price = [o \in {"o1", "o2"} |-> IF o = "o1" THEN buy_price
                                          ELSE BasePrice[o]]
    /\ size = [o \in {"o1", "o2"} |-> 10]
    /\ _op_order = [o \in {"o1", "o2"} |-> IF o = "o1" THEN "o2" ELSE "o1"]
    /\ market_maker = [stop_pct |-> 5, min_spread |-> 30, max_spread |-> 60,
                       buy_orders |-> <<1000, 990>>, sell_orders |-> <<1030>>]
    /\ _locked = [o \in {"o1", "o2"} |-> FALSE]
    /\ _unlock_method = [o \in {"o1", "o2"} |-> None]
    /\ _cycle_number = [o \in {"o1", "o2"} |-> 0]
    /\ frame = Idle
    /\ args \in IncrementCalls
    /\ ret = NoCall

NextIncrement ==
    /\ Pending("get_price_incremented")
    /\ call_get_price_incremented(args.self, args.p, args.other_prices,
           args.cap_out, args.increment, args.step, args.min_profit, args._force)

SpecIncrement == InitIncrement /\ [][NextIncrement]_vars

----------------------------------------------------------------------------
\* The claims.

Abs(x) == IF x < 0 THEN 0 - x ELSE x

\* A get_price_incremented call has returned a price.
Incremented ==
    /\ ret.op = "get_price_incremented"
    /\ ret.raised = None

\* C1: the price get_price_incremented returns is more than one step away
\* from every price of other_prices other than the start price p.
C1_CollisionAvoidance ==
    Incremented =>
        \A i \in DOMAIN args.other_prices :
            args.other_prices[i] # args.p =>
                Abs(Val(ret.value) - args.other_prices[i]) > args.step

\* C2: for a sell leg with a registered pairing and a min_profit m, a price
\* returned by get_price_incremented that is above stop_amount is at least
\* op_order.price + m.
C2_MinProfitFloor ==
    ( /\ Incremented
      /\ side[ret.self] = "sell"
      /\ op_order(ret.self) # None
      /\ args.min_profit # NoNum
      /\ stop_amount(ret.self) # NoNum
      /\ 100 * Val(ret.value) > Val(stop_amount(ret.self)) )
    => Val(ret.value) >= price[op_order(ret.self)] + Val(args.min_profit)

\* C3: the order starts Unlocked; lock() on an Unlocked order succeeds and
\* leaves it Locked; lock() on a Locked order raises OrderLockError and leaves
\* it Locked with its unlock method unchanged; after an unlock() that
\* succeeded the order is Unlocked, so that the next lock() succeeds.
C3_LockProtocol ==
    /\ \A o \in Arena : ~_locked[o]
    /\ [][ /\ args'.op = "lock" =>
                IF _locked[args'.self]
                THEN /\ ret'.raised = "OrderLockError"
                     /\ _locked'[args'.self]
                     /\ _unlock_method'[args'.self] = _unlock_method[args'.self]
                ELSE /\ ret'.raised = None
                     /\ _locked'[args'.self]
           /\ (args'.op = "unlock" /\ ret'.raised = None) =>
                ~_locked'[args'.self]
         ]_vars

\* lock() was refused on a Locked order that holds an unlock method.
C3_Witness ==
    /\ ret.op = "lock"
    /\ ret.raised = "OrderLockError"
    /\ _locked[ret.self]
    /\ _unlock_method[ret.self] = "callable"

\* C4: unlock() of an order locked with an unlock method that returns false
\* or raises fails with OrderLockError and leaves the order Locked; unlock()
\* of an order locked without an unlock method succeeds and leaves it
\* Unlocked.
C4_UnlockFailureKeepsLock ==
    [][ args'.op = "unlock" =>
            /\ ( /\ _locked[args'.self]
                 /\ _unlock_method[args'.self] # None
                 /\ args'.verdict \in {"false", "raises"} )
               => (ret'.raised = "OrderLockError" /\ _locked'[args'.self])
            /\ (_locked[args'.self] /\ _unlock_method[args'.self] = None)
               => (ret'.raised = None /\ ~_locked'[args'.self])
      ]_vars

\* unlock() failed on a raising unlock method and the order is still Locked.
C4_Witness ==
    /\ ret.op = "unlock"
    /\ args.verdict = "raises"
    /\ ret.raised = "OrderLockError"
    /\ _locked[ret.self]

\* C5: reading locked returns, without an exception, the lock state of the
\* order.
C5_LockedReportsState ==
    ret.op = "locked" =>
        (ret.raised = None /\ ret.value = Num(_locked[ret.self]))

\* C6: an op_order has the side opposite to its owner's; registering an order
\* of the opposite side makes it the op_order; registering an order of the
\* same side that has an op_order makes that op_order the owner's.
C6_Pairing ==
    /\ [](\A o \in Arena : _op_order[o] # None => side[_op_order[o]] # side[o])
    /\ [][ args'.op = "register_op_order" =>
             /\ side[args'.order] # side[args'.self]
                => (ret'.raised = None /\ _op_order'[args'.self] = args'.order)
             /\ (side[args'.order] = side[args'.self] /\ _op_order[args'.order] # None)
                => ( /\ ret'.raised = None
                     /\ _op_order'[args'.self] = _op_order[args'.order] )
         ]_vars

\* An order took over the op_order of another order of its own side.
C6_Witness ==
    /\ ret.op = "register_op_order"
    /\ ret.raised = None
    /\ args.order # ret.self
    /\ side[args.order] = side[ret.self]
    /\ _op_order[ret.self] # None
    /\ _op_order[ret.self] = _op_order[args.order]

\* The prices from..upto that are a whole number of cents above from.
CentsFrom(from, upto) == {q \in from..upto : (q - from) % 10 = 0}

\* C7: on a sell leg with positive size and a pairing, the loop of
\* get_price_adjusted_to_profit_target only moves on from prices whose pnl is
\* below min_profit: it stops at the first price that meets it.
C7_ProfitTargetConvergence ==
    ( /\ frame # Idle
      /\ side[frame.self] = "sell"
      /\ size[frame.self] > 0 )
    => \A q \in CentsFrom(price[frame.self], frame.price - 10) :
          Val(get_pnl(frame.self, q)) < frame.min_profit

\* The list get_price_adjusted_to_other_prices works on.
SiblingPrices ==
    IF args.other_prices # NoNum THEN Val(args.other_prices)
    ELSE IF side[args.self] = "buy" THEN market_maker.buy_orders
    ELSE market_maker.sell_orders

\* C8: with siblings, an aggressive buy starts the search incrementing unless
\* the baseline is at or above the highest sibling plus one step, and then
\* decrementing; a buy that is not aggressive starts it decrementing.
C8_BuyPlacementPolicy ==
    ( /\ ret.op = "get_price_adjusted_to_other_prices"
      /\ side[ret.self] = "buy"
      /\ SiblingPrices # <<>> )
    => ret.increment =
         IF args.aggressive
         THEN IF ret.my_min >= Max(Range(SiblingPrices)) + args.step
              THEN "decrement" ELSE "increment"
         ELSE "decrement"

\* C9: cycle_number starts at 0; a register_order_cycle call adds one to the
\* cycle_number of its order; nothing else changes a cycle_number.
C9_CycleNumberMonotone ==
    /\ \A o \in Arena : cycle_number(o) = 0
    /\ [][ \A o \in Arena :
             IF args'.op = "register_order_cycle" /\ args'.self = o
             THEN _cycle_number'[o] = _cycle_number[o] + 1
             ELSE _cycle_number'[o] = _cycle_number[o]
         ]_vars

\* An order went through two cycles.
C9_Witness ==
    /\ ret.op = "register_order_cycle"
    /\ cycle_number(ret.self) >= 2

\* C10: on a buy leg, a call of get_price_incremented with a cap_out that is
\* not forced returns a price within the cap: at or above it when
\* decrementing, at or below it when incrementing.
C10_CapEnforcement ==
    ( /\ Incremented
      /\ side[ret.self] = "buy"
      /\ args.cap_out # NoNum
      /\ ~args._force )
    => IF args.increment
       THEN Val(ret.value) <= Val(args.cap_out)
       ELSE Val(ret.value) >= Val(args.cap_out)

\* An amount that is a whole number of cents, or None.
WholeCents(opt) == opt = NoNum \/ Val(opt) % 10 = 0

\* C11: with prices in whole cents, a step of at least one cent, a min_profit
\* that is None or at least 0 and, on a sell leg, a pairing and a stop_pct,
\* every call of get_price_incremented returns a price, and makes a chain of
\* at most two nested calls.
C11_Termination ==
    ( /\ ret.op = "get_price_incremented"
      /\ WholeCents(Num(args.p))
      /\ \A i \in DOMAIN args.other_prices : WholeCents(Num(args.other_prices[i]))
      /\ WholeCents(args.cap_out)
      /\ \A o \in Arena : WholeCents(Num(price[o]))
      /\ args.step >= 10
      /\ args.min_profit # NoNum => Val(args.min_profit) >= 0
      /\ side[ret.self] = "sell" =>
            (op_order(ret.self) # None /\ market_maker.stop_pct # 0) )
    => (ret.raised = None /\ ret.depth <= 2)

====
